---- MODULE Spec2Model ----
(***************************************************************************)
(* Nerve Center: agent registry, heartbeat handlers, liveness sweep and    *)
(* task scheduler (server/core/registry.go, server/api/router.go,          *)
(* server/api/handler.go).                                                 *)
(*                                                                         *)
(* Time is counted in minutes.  Go pointers are modelled by a heap of      *)
(* AgentInfo cells: the registry map holds references, and a request       *)
(* handler that obtained a *AgentInfo from Registry.Get keeps a live alias *)
(* to the cell.  Every section of code that runs under Registry.mu or      *)
(* Scheduler.mu is one atomic step; code that runs outside the locks is    *)
(* split at each read of the clock and each write to shared memory; a      *)
(* handler ends with the step that sends its HTTP response.                *)
(***************************************************************************)
EXTENDS Integers, FiniteSets, Sequences, TLC

VARIABLES
    clock,      \* time.Now(), in minutes
    agents,     \* Registry.agents: key -> reference (NilRef when absent)
    heap,       \* reference -> AgentInfo cell
    proc,       \* in-flight HTTP request handlers (goroutines)
    tasks,      \* Scheduler.tasks: task id -> Task (NoTask when absent)
    delivered,  \* per task: number of GetPendingTasks results that held it
    accepted,   \* per task: number of MarkTaskDone calls that wrote it
    slast,      \* the last completed scheduler operation
    subsec,     \* time.Now() within the minute, in 1/TicksPerSecond seconds
    ex,         \* the agent's task execution engine: the call in progress
    ws,         \* the WebSocketManager, its connections and its callers
    ag,         \* the agent process: main, its two loops, its executions
    tm          \* the TokenManager: its tokens and the holder of a token

vars == <<clock, agents, heap, proc, tasks, delivered, accepted, slast, subsec,
          ex, ws, ag, tm>>
regVars == <<clock, agents, heap, proc>>
schedVars == <<tasks, delivered, accepted, slast, subsec>>
execVars == <<ex>>
wsVars == <<ws>>
agVars == <<ag>>
tmVars == <<tm>>
\* the state outside the coordinator's registry and scheduler
extVars == <<ex, ws, ag, tm>>

----------------------------------------------------------------------------
(* Bounds and program constants *)

MaxCalls == 2
MaxClock == 7
MaxSubsec == 3
TicksPerSecond == 2
MaxElapsed == 3
MaxExecCalls == 2
DefaultTimeout == 2
SendCap == 1
MaxBroadcasts == 1
MaxSendTo == 1
MaxRuns == 2
MaxTokens == 3
MaxTokenClock == 3
TokenTTL == 2
OfflineThreshold == 5
ZeroTime == 0

\* the instants at which the clock is read, up to MaxClock: their
\* differences are 0, 1, OfflineThreshold and OfflineThreshold + 1
Instants == {1, 2} \cup ((2 + OfflineThreshold)..MaxClock)

Hostnames == {"h1", "h2"}
Procs == {"p1", "p2"}
TaskIds == {"t1", "t2"}
StatusInputs == {"", "online", "maintenance"}
NoField == "<absent>"
\* system_info.hostname of a heartbeat: absent, or another agent's name
SysHostInputs == {NoField, "h2"}

\* agentInfo.Hostname + "-" + generateRandomID(8)
GeneratedID(h) == IF h = "h1" THEN "h1-Xk3" ELSE "h2-Xk3"

\* the ids a request can name: registered hostnames, ids the registry
\* never stores, and the empty id of the route without an :id parameter
Keys == Hostnames \cup {GeneratedID(h) : h \in Hostnames} \cup {""}

\* time.Now().Format("20060102150405"): the reading of the clock written
\* down to the second, the fraction of the second dropped
generateTaskID(c, ss) ==
    ToString(c) \o ":" \o ToString(ss \div TicksPerSecond)

GeneratedTaskIds ==
    {generateTaskID(c, ss) : c \in Instants, ss \in 0..MaxSubsec}

\* the keys of Scheduler.tasks: ids the caller of SubmitTask chose and ids
\* ScheduleHook and ScheduleCommand generated
AllTaskIds == TaskIds \cup GeneratedTaskIds

NilRef == 0
Refs == 1..(Cardinality(Hostnames) + Cardinality(Procs))

FreeCell == [id |-> "", hostname |-> "", status |-> "",
             registeredAt |-> ZeroTime, lastSeen |-> ZeroTime]

\* A request handler: its position, the handler it runs, its locals
\* (agentID, agent, heartbeatData.Status, system_info.hostname, the
\* AgentInfo it builds) and its response.  reported is what the registry
\* call returned to the handler ("ok" a value, "NotFound" nil, "none" no
\* result); found and wasOffline record the registry's state at the call.
IdleProc == [pc |-> "idle", op |-> "", key |-> "", ref |-> NilRef,
             status |-> "", hostname |-> "", info |-> FreeCell,
             http |-> 0, reported |-> "", found |-> FALSE,
             wasOffline |-> FALSE]

\* c.JSON(http.StatusOK, ...): what is left of a handler once the
\* registry call has returned
Response(op, id, reported, found) ==
    [IdleProc EXCEPT !.pc = "respond", !.op = op, !.key = id,
                     !.http = 200, !.reported = reported, !.found = found]

----------------------------------------------------------------------------
(* Registry helpers *)

Present(ags) == {k \in Keys : ags[k] # NilRef}

\* Registry.Get: the stored pointer, nil when the key is absent
Get(ags, id) == ags[id]

\* Registry.List: the stored pointers
List(ags) == {ags[k] : k \in Present(ags)}

\* cells that are still reachable from the map or from a handler's alias
Live(ags, pr) == List(ags) \cup {pr[p].ref : p \in Procs}

Collect(h, ags, pr) ==
    [r \in Refs |-> IF r \in Live(ags, pr) THEN h[r] ELSE FreeCell]

NewRef(ags, pr) == CHOOSE r \in Refs :
    /\ r \notin Live(ags, pr)
    /\ \A q \in Refs : q \notin Live(ags, pr) => r <= q

\* registerAgent without line 606: the status is left at its zero value
NewAgentInfoNoStatus(h, now) ==
    [id |-> GeneratedID(h), hostname |-> h, status |-> "",
     registeredAt |-> now, lastSeen |-> now]

\* registerAgent lines 587-619: the record built from the request
NewAgentInfo(h, now) ==
    [id |-> GeneratedID(h), hostname |-> h, status |-> "online",
     registeredAt |-> now, lastSeen |-> now]

\* Register keeping the id the handler generated (router.go line 584)
RegisterKeyGenerated(info) == info.id

\* Registry.Register line 94: the map key of an agent record
RegisterKey(info) == info.hostname

\* Update that stores the record under the key when the key is missing
UpdateOrInsert(ags, h, pr, id, val) ==
    LET r == IF ags[id] # NilRef THEN ags[id] ELSE NewRef(ags, pr)
    IN [agents |-> [ags EXCEPT ![id] = r],
        heap |-> [h EXCEPT ![r] = [val EXCEPT !.id = id]]]

\* Registry.Update: overwrite the stored cell when the key exists; the
\* result is the map and the heap after the call
Update(ags, h, pr, id, val) ==
    IF ags[id] # NilRef
    THEN [agents |-> ags,
          heap |-> [h EXCEPT ![ags[id]] = [val EXCEPT !.id = id]]]
    ELSE [agents |-> ags, heap |-> h]

\* the comparison of line 144 with >= for >
IsStaleInclusive(now, lastSeen) == now - lastSeen >= OfflineThreshold

\* cleanupStaleAgents line 144
IsStale(now, lastSeen) == now - lastSeen > OfflineThreshold

\* agentHeartbeat lines 682-686
HeartbeatStatus(st) == IF st # "" THEN st ELSE "online"

\* agentHeartbeat lines 660-678: the agent the request addresses, as the
\* set of (pointer, agent id) pairs the lookup can yield.  With an id in
\* the path it is Registry.Get(id); without one it is the first entry of
\* Registry.List() (map order) whose Hostname equals system_info.hostname.
Lookup(ags, h, idParam, sysHost) ==
    IF idParam # ""
    THEN {<<Get(ags, idParam), idParam>>}
    ELSE IF sysHost \notin {NoField, ""}
              /\ \E r \in List(ags) : h[r].hostname = sysHost
         THEN {<<r, h[r].id>> : r \in {x \in List(ags) : h[x].hostname = sysHost}}
         ELSE {<<NilRef, "">>}

\* the agent record the registry holds under a key
Agent(k) == heap[agents[k]]

----------------------------------------------------------------------------
(* Task execution engine (agent/core/task_executor.go): state *)

\* the timeout argument of a call, in seconds; 0 asks for the default
TimeoutInputs == {0, 1}
KindInputs == {"command", "script", "hook", "backup"}
RegisteredPlugins == {"disk"}
PluginInputs == {"disk", "gpu"}

NoResult == [success |-> FALSE, output |-> "", error |-> ""]

\* One call of the engine: its position, its deadline and the seconds
\* elapsed since its context was made, the child process, the temporary
\* file, the plugin goroutine, the error of the watcher of the context,
\* and the TaskResult it returns.  started and invoked count the processes
\* started and the capabilities invoked for the call; timedOut records that
\* the deadline ended the work; signalled that the capability was told to
\* cancel.
ExecIdle == [pc |-> "idle", op |-> "", kind |-> "", name |-> "",
             timeout |-> 0, elapsed |-> 0, process |-> "none",
             tmp |-> "none", plugin |-> "none", watchErr |-> "",
             started |-> 0, invoked |-> 0, timedOut |-> FALSE,
             signalled |-> FALSE, result |-> NoResult, calls |-> 0]

\* lines 33-36: the deadline of a call
Deadline(timeout) == IF timeout > 0 THEN timeout ELSE DefaultTimeout

\* ctx.Done() is closed
CtxDone(e) == e.elapsed >= e.timeout

\* the error of exec.Cmd.Wait: that of the process state when there is
\* one, otherwise that of the watcher of the context
WaitErr(e) ==
    IF e.process = "exit1" THEN "exit status 1"
    ELSE IF e.process \in {"signaled", "ctxkilled"} THEN "signal: killed"
    ELSE e.watchErr

\* lines 52-61: the TaskResult made from the error of the command
ResultOf(err, what, output) ==
    [success |-> (err = ""),
     output |-> output,
     error |-> IF err = "" THEN ""
               ELSE IF err = "context deadline exceeded"
                    THEN what \o " timeout"
                    ELSE err]

\* a return that leaves the temporary file behind unless the run succeeded
DeferredKeepOnError(e, err) ==
    IF e.tmp = "exists" /\ err = "" THEN "removed" ELSE e.tmp

\* line 85: defer os.Remove(tmpFile.Name()), run at every return after the
\* file was created
Deferred(e, err) == IF e.tmp = "exists" THEN "removed" ELSE e.tmp

\* a lookup that finds every name
PluginExistsAlways(name) == TRUE

\* PluginManager.ExecutePlugin lines 548-551
PluginExists(name) == name \in RegisteredPlugins

\* the engine returns: deferred calls run, the result is handed back
Returned(e, err, what, output) ==
    [e EXCEPT !.pc = "returned", !.tmp = Deferred(e, err),
              !.result = ResultOf(err, what, output)]

----------------------------------------------------------------------------
(* Push channel (server/pkg/websocket/manager.go): state *)

Conns == {"c1", "c2"}
NoConn == "nil"
\* the client_id and agent_id query parameters of a connection request
WsClientIds == {"h1", "w1"}
WsAgentIds == {"", "h1"}

\* A connection and its Client: the state of the socket (new before the
\* upgrade, then open, then closed), ID and AgentID, the peer (ok: it reads
\* and answers; stalled: it has stopped reading and its buffers are full;
\* failed: the transport reports errors), whether a write deadline has
\* been set on the connection (none, set), the position of the handler and read
\* pump (rd) and of the write pump (wr), the length of the Send queue, the
\* broadcast messages written to the socket and the number of SendToAgent
\* messages written to it.
NewConn == [st |-> "new", id |-> "", agentID |-> "", peer |-> "ok",
            dl |-> "none", rd |-> "none", wr |-> "none", send |-> 0,
            got |-> {}, direct |-> 0]

\* The manager: the clients table; the hub loop (Run) with the message it
\* broadcasts, the keys its range has still to visit and the key it is
\* writing to (start and failed record, for the length of one broadcast,
\* the connections the table held when it began and those whose write
\* failed); the caller of BroadcastMessage; the caller of SendToAgent; and
\* whether the process has panicked.
WsInit == [clients |-> [k \in WsClientIds |-> NoConn],
           conn |-> [c \in Conns |-> NewConn],
           hub |-> [pc |-> "select", msg |-> 0, todo |-> {}, cur |-> "",
                    start |-> {}, failed |-> {}],
           bc |-> [pc |-> "idle", n |-> 0],
           sa |-> [pc |-> "idle", n |-> 0, target |-> "", todo |-> {},
                   cur |-> NoConn],
           crashed |-> FALSE]

WsKeys(w) == {k \in WsClientIds : w.clients[k] # NoConn}
WsRegistered(w) == {w.clients[k] : k \in WsKeys(w)}

\* conn.WriteMessage as the hub and SendToAgent call it, without setting a
\* deadline: an error on a closed socket and on a failed transport.  The
\* deadline the write pump last set stays on the connection: once it has
\* passed the write fails, and towards a stalled peer the write fails when
\* it passes.  With no deadline the write succeeds towards a peer that
\* reads and does not return while the peer is stalled.
WriteOutcome(cn) ==
    IF cn.st = "closed" \/ cn.peer = "failed" THEN {"error"}
    ELSE IF cn.dl = "set"
         THEN IF cn.peer = "stalled" THEN {"error"} ELSE {"ok", "error"}
    ELSE IF cn.peer = "stalled" THEN {"blocked"}
    ELSE {"ok"}

\* conn.WriteMessage as the write pump calls it, after SetWriteDeadline:
\* a stalled peer makes the write fail when the deadline passes
PumpOutcome(cn) ==
    IF cn.st = "closed" \/ cn.peer # "ok" THEN "error" ELSE "ok"

\* the activities that are inside a write on connection c
Inside(w, c) ==
    \/ w.hub.pc = "write" /\ w.clients[w.hub.cur] = c
    \/ w.sa.pc = "write" /\ w.sa.cur = c

\* a failed write that closes the connection and leaves its entry
hubWriteFailedKeepsEntry(w, k) ==
    [w EXCEPT !.conn[w.clients[k]].st = "closed",
              !.hub.failed = @ \cup {w.clients[k]}]

\* Run lines 68-72: a failed write closes the connection and deletes its
\* entry
hubWriteFailed(w, k) ==
    [w EXCEPT !.conn[w.clients[k]].st = "closed",
              !.clients[k] = NoConn,
              !.hub.failed = @ \cup {w.clients[k]}]

\* SendToAgent line 194: the entry the message is for
SendTarget(k, agentID) == k = agentID

----------------------------------------------------------------------------
(* Agent runtime loop (agent/main.go, agent/core/agent.go): state *)

\* what the agent can receive for a request: a 200 answer, a 200 answer
\* whose body does not decode (or, for a registration, holds no id), an
\* answer with another status, or no answer (transport error, timeout)
Responses == {"ok", "undecodable", "status", "error"}
RequestFailures == {"undecodable", "status", "error"}

\* the hostname and registry id of the agent
AgentHost == "h1"

\* The agent process.  main is at Register ("idle", "registering"), has
\* exited in logger.Fatalf ("fatal"), is starting the loops ("registered",
\* "started"), waits for a signal ("running"), is inside Stop ("stopping"),
\* has come back from Stop ("stopped") or has returned ("exited").  Each
\* loop is not started ("none"), started with `go` but not yet run
\* ("spawned"), in its select ("wait"), has a request in flight
\* ("request") or has returned ("exit"); last is the outcome of its last
\* request and tick tells that its ticker has fired and the tick has not
\* been received yet.  run counts, per task, the executeTask goroutines that have not
\* yet sent their report, reporting those whose report is in flight, and
\* executed the executions begun.
AgentInit ==
    [main |-> "idle", registered |-> FALSE, agentID |-> "",
     stopClosed |-> FALSE, wg |-> 0,
     hb |-> [pc |-> "none", last |-> "none", tick |-> FALSE],
     tl |-> [pc |-> "none", last |-> "none", tick |-> FALSE],
     run |-> [t \in TaskIds |-> 0],
     reporting |-> [t \in TaskIds |-> 0],
     executed |-> [t \in TaskIds |-> 0]]

\* a main that goes on whatever Register returned
afterRegisterIgnoringError(resp) == "registered"

\* main lines 44-47: Register returns an error unless the server answered
\* 200, and an error is fatal
afterRegister(resp) ==
    IF resp \in {"ok", "undecodable"} THEN "registered" ELSE "fatal"

\* a loop that returns when its request has failed
afterRequestStopOnFailure(resp) ==
    IF resp \in RequestFailures THEN "exit" ELSE "wait"

\* StartHeartbeat lines 235-237, StartTaskListener lines 312-315: whatever
\* the request returned, the loop selects again
afterRequest(resp) == "wait"

\* APIRouter.listTasks, which serves GET /api/tasks: no task
listTasks == {}

\* the agent process is alive
AgentAlive == ag.main \notin {"fatal", "exited"}

----------------------------------------------------------------------------
(* Token manager (server/pkg/security/token.go): state *)

\* Tokens are named in the order in which they are made; 0 is no token.
Tokens == 1..MaxTokens
NoToken == 0
TokenAgents == {"h1"}

\* tm.tokens[token] is absent
NoTokenInfo == [present |-> FALSE, expiresAt |-> 0, agentID |-> "",
                isActive |-> FALSE]

\* NewTokenManager: no token; made counts the tokens made so far, now is
\* time.Now() and last is the last call with its argument and result
TokenInit ==
    [tokens |-> [k \in Tokens |-> NoTokenInfo], made |-> 0, now |-> 0,
     last |-> [op |-> "none", arg |-> NoToken, ret |-> NoToken,
               err |-> ""]]

\* GenerateToken lines 58-66, RotateToken lines 134-142
NewTokenInfo(now, agentID) ==
    [present |-> TRUE, expiresAt |-> now + TokenTTL, agentID |-> agentID,
     isActive |-> TRUE]

\* ValidateToken lines 77-91: the error, "" when the token is accepted
ValidateError(m, token) ==
    IF token \notin Tokens \/ ~m.tokens[token].present
    THEN "token not found"
    ELSE IF ~m.tokens[token].isActive THEN "token is inactive"
    ELSE IF m.now > m.tokens[token].expiresAt THEN "token has expired"
    ELSE ""

Accepts(m, token) == ValidateError(m, token) = ""

\* RotateToken lines 119-122: the only error of a rotation
RotateError(m, oldToken) ==
    IF oldToken \notin Tokens \/ ~m.tokens[oldToken].present
    THEN "old token not found" ELSE ""

----------------------------------------------------------------------------
Init ==
    /\ clock = 1
    /\ agents = [k \in Keys |-> NilRef]
    /\ heap = [r \in Refs |-> FreeCell]
    /\ proc = [p \in Procs |-> IdleProc]
    /\ tasks = [t \in AllTaskIds |-> [agentID |-> "", status |-> "absent"]]
    /\ delivered = [t \in AllTaskIds |-> 0]
    /\ accepted = [t \in AllTaskIds |-> 0]
    /\ slast = [op |-> "none", id |-> "", ret |-> <<>>]
    /\ subsec = 0
    /\ ex = ExecIdle
    /\ ws = WsInit
    /\ ag = AgentInit
    /\ tm = TokenInit

\* the clock advances to a later instant
Tick(t) ==
    /\ t > clock
    /\ clock' = t
    /\ UNCHANGED <<agents, heap, proc>>
    /\ UNCHANGED <<schedVars, extVars>>

\* APIRouter.registerAgent up to the call of Registry.Register: the body
\* binds (hostname is required), a token is present, the record is built.
registerAgent(p, h) ==
    /\ proc[p].pc = "idle"
    /\ proc' = [proc EXCEPT ![p] = [IdleProc EXCEPT
                  !.pc = "Register", !.op = "registerAgent",
                  !.info = NewAgentInfo(h, clock)]]
    /\ UNCHANGED <<clock, agents, heap>>
    /\ UNCHANGED <<schedVars, extVars>>

\* Handler.RegisterAgent up to the call of Registry.Register: the body
\* binds into the record, which is stamped; the token is a Bearer token.
RegisterAgent(p, h) ==
    /\ proc[p].pc = "idle"
    /\ proc' = [proc EXCEPT ![p] = [IdleProc EXCEPT
                  !.pc = "Register", !.op = "RegisterAgent",
                  !.info = [id |-> "", hostname |-> h, status |-> "online",
                            registeredAt |-> clock, lastSeen |-> clock]]]
    /\ UNCHANGED <<clock, agents, heap>>
    /\ UNCHANGED <<schedVars, extVars>>

\* Registry.Register, under r.mu; the handler is left with its response
Register(p) ==
    /\ proc[p].pc = "Register"
    /\ LET info == proc[p].info
           id == RegisterKey(info)
           r == NewRef(agents, proc)
           ags == [agents EXCEPT ![id] = r]
           pr == [proc EXCEPT ![p] =
                    Response(proc[p].op, id, "ok", agents[id] # NilRef)]
       IN /\ agents' = ags
          /\ proc' = pr
          /\ heap' = Collect([heap EXCEPT ![r] = [info EXCEPT !.id = id]],
                             ags, pr)
    /\ UNCHANGED clock
    /\ UNCHANGED <<schedVars, extVars>>

\* APIRouter.agentHeartbeat lines 642-681: bind the body, find the agent,
\* read the clock.  An unknown agent is answered 200 without any write.
agentHeartbeat(p, idParam, st, sysHost) ==
    /\ proc[p].pc = "idle"
    /\ \E f \in Lookup(agents, heap, idParam, sysHost) :
         IF f[1] = NilRef
         THEN proc' = [proc EXCEPT ![p] =
                         Response("agentHeartbeat", idParam, "NotFound", FALSE)]
         ELSE proc' = [proc EXCEPT ![p] = [IdleProc EXCEPT
                         !.pc = "hbLastSeen", !.op = "agentHeartbeat",
                         !.key = f[2], !.ref = f[1],
                         !.status = st, !.hostname = sysHost,
                         !.info = [FreeCell EXCEPT !.lastSeen = clock],
                         !.wasOffline = (heap[f[1]].status = "offline")]]
    /\ UNCHANGED <<clock, agents, heap>>
    /\ UNCHANGED <<schedVars, extVars>>

\* line 681: agent.LastSeen = time.Now(), written through the alias
hbLastSeen(p) ==
    /\ proc[p].pc = "hbLastSeen"
    /\ heap' = [heap EXCEPT ![proc[p].ref].lastSeen = proc[p].info.lastSeen]
    /\ proc' = [proc EXCEPT ![p].pc = "hbStatus"]
    /\ UNCHANGED <<clock, agents>>
    /\ UNCHANGED <<schedVars, extVars>>

\* lines 682-686: agent.Status, written through the alias
hbStatus(p) ==
    /\ proc[p].pc = "hbStatus"
    /\ heap' = [heap EXCEPT ![proc[p].ref].status = HeartbeatStatus(proc[p].status)]
    /\ proc' = [proc EXCEPT ![p].pc = IF proc[p].hostname # NoField
                                      THEN "hbSystemInfo" ELSE "hbUpdate"]
    /\ UNCHANGED <<clock, agents>>
    /\ UNCHANGED <<schedVars, extVars>>

\* lines 688-702: the descriptor fields of system_info, written through
\* the alias (of them the model keeps Hostname)
hbSystemInfo(p) ==
    /\ proc[p].pc = "hbSystemInfo"
    /\ heap' = [heap EXCEPT ![proc[p].ref].hostname = proc[p].hostname]
    /\ proc' = [proc EXCEPT ![p].pc = "hbUpdate"]
    /\ UNCHANGED <<clock, agents>>
    /\ UNCHANGED <<schedVars, extVars>>

\* line 703: r.registry.Update(agentID, agent), under r.mu
hbUpdate(p) ==
    /\ proc[p].pc = "hbUpdate"
    /\ LET pr == [proc EXCEPT ![p] =
                    Response("agentHeartbeat", proc[p].key, "ok", TRUE)]
           u == Update(agents, heap, proc, proc[p].key, heap[proc[p].ref])
       IN /\ proc' = pr
          /\ agents' = u.agents
          /\ heap' = Collect(u.heap, u.agents, pr)
    /\ UNCHANGED clock
    /\ UNCHANGED <<schedVars, extVars>>

\* Handler.Heartbeat lines 60-69: bind the body into a fresh AgentInfo,
\* stamp it.  The other fields are what the body carries.
Heartbeat(p, h) ==
    /\ proc[p].pc = "idle"
    /\ proc' = [proc EXCEPT ![p] = [IdleProc EXCEPT
                  !.pc = "Update", !.op = "Heartbeat",
                  !.info = [id |-> "", hostname |-> h, status |-> "online",
                            registeredAt |-> ZeroTime, lastSeen |-> clock],
                  !.wasOffline = (agents[h] # NilRef
                                  /\ heap[agents[h]].status = "offline")]]
    /\ UNCHANGED <<clock, agents, heap>>
    /\ UNCHANGED <<schedVars, extVars>>

\* Handler.Heartbeat line 72: Registry.Update(hostname, &agentInfo), under
\* r.mu.  Update returns nothing.
HeartbeatUpdate(p) ==
    /\ proc[p].pc = "Update"
    /\ LET info == proc[p].info
           pr == [proc EXCEPT ![p] =
                    Response("Heartbeat", info.hostname, "none",
                             agents[info.hostname] # NilRef)]
           u == Update(agents, heap, proc, info.hostname, info)
       IN /\ proc' = pr
          /\ agents' = u.agents
          /\ heap' = Collect(u.heap, u.agents, pr)
    /\ UNCHANGED clock
    /\ UNCHANGED <<schedVars, extVars>>

\* the handler writes its response and returns
respond(p) ==
    /\ proc[p].pc = "respond"
    /\ proc' = [proc EXCEPT ![p] = IdleProc]
    /\ UNCHANGED <<clock, agents, heap>>
    /\ UNCHANGED <<schedVars, extVars>>

\* a sweep that deletes the stale entries from the map
cleanupStaleAgentsRemoving ==
    /\ agents' = [k \in Keys |->
                    IF agents[k] # NilRef
                       /\ IsStale(clock, heap[agents[k]].lastSeen)
                    THEN NilRef ELSE agents[k]]
    /\ heap' = Collect(heap, agents', proc)
    /\ UNCHANGED <<clock, proc>>
    /\ UNCHANGED <<schedVars, extVars>>

\* Registry.cleanupStaleAgents: one pass of the loop body, under r.mu
cleanupStaleAgents ==
    /\ heap' = [r \in Refs |->
                  IF r \in List(agents) /\ IsStale(clock, heap[r].lastSeen)
                  THEN [heap[r] EXCEPT !.status = "offline"]
                  ELSE heap[r]]
    /\ UNCHANGED <<clock, agents, proc>>
    /\ UNCHANGED <<schedVars, extVars>>

\* the steps of the request handlers in PS
HandlerStep(PS) ==
    \/ \E p \in PS : Register(p)
    \/ \E p \in PS : hbLastSeen(p)
    \/ \E p \in PS : hbStatus(p)
    \/ \E p \in PS : hbSystemInfo(p)
    \/ \E p \in PS : hbUpdate(p)
    \/ \E p \in PS : HeartbeatUpdate(p)
    \/ \E p \in PS : respond(p)

\* One request in flight at a time, against the sweep and the clock.
RegistryNext ==
    \/ \E t \in Instants : Tick(t)
    \/ \E h \in Hostnames : registerAgent("p1", h)
    \/ \E h \in Hostnames : RegisterAgent("p1", h)
    \/ \E k \in Keys, st \in StatusInputs,
          sh \in SysHostInputs : agentHeartbeat("p1", k, st, sh)
    \/ \E k \in Keys : Heartbeat("p1", k)
    \/ HandlerStep({"p1"})
    \/ cleanupStaleAgents

SpecRegistry == Init /\ [][RegistryNext]_vars

\* Requests for one agent handled by concurrent goroutines.
ConcurrentNext ==
    \/ \E t \in Instants : Tick(t)
    \/ \E p \in Procs : registerAgent(p, "h1")
    \/ \E p \in Procs : agentHeartbeat(p, "h1", "online", NoField)
    \/ \E p \in Procs : Heartbeat(p, "h1")
    \/ \E p \in Procs : Register(p)
    \/ \E p \in Procs : hbLastSeen(p)
    \/ \E p \in Procs : hbStatus(p)
    \/ \E p \in Procs : hbUpdate(p)
    \/ \E p \in Procs : HeartbeatUpdate(p)
    \/ \E p \in Procs : respond(p)
    \/ cleanupStaleAgents

SpecConcurrent == Init /\ [][ConcurrentNext]_vars

----------------------------------------------------------------------------
(* Scheduler *)

NoTask == [agentID |-> "", status |-> "absent"]

\* the orders in which a range over a Go map can visit the members of S
Orderings(S) ==
    {q \in [1..Cardinality(S) -> S] : \A i, j \in 1..Cardinality(S) :
                                         q[i] = q[j] => i = j}

\* GetPendingTasks lines 198-202: the tasks the loop selects
PendingOf(ts, agentID) ==
    {t \in AllTaskIds : ts[t].agentID = agentID /\ ts[t].status = "pending"}

\* GetPendingTasks: the status of a task after it was returned
AfterRetrieval(task) == task

\* MarkTaskDone line 217
DoneStatus(task, success) == "completed"

\* Scheduler.SubmitTask, under s.mu: the task is stored under its id as
\* pending.  A submission starts the task's delivery and report counts.
SubmitTask(id, agentID) ==
    /\ tasks' = [tasks EXCEPT ![id] = [agentID |-> agentID, status |-> "pending"]]
    /\ delivered' = [delivered EXCEPT ![id] = 0]
    /\ accepted' = [accepted EXCEPT ![id] = 0]
    /\ slast' = [op |-> "SubmitTask", id |-> id, ret |-> <<>>]
    /\ UNCHANGED subsec
    /\ UNCHANGED <<regVars, extVars>>

\* Scheduler.GetPendingTasks, under s.mu.RLock: the pending tasks of the
\* agent, in map order
GetPendingTasks(agentID) ==
    LET S == PendingOf(tasks, agentID)
    IN /\ \A t \in S : delivered[t] < MaxCalls
       /\ \E q \in Orderings(S) :
            slast' = [op |-> "GetPendingTasks", id |-> agentID, ret |-> q]
       /\ tasks' = [t \in AllTaskIds |->
                      IF t \in S THEN AfterRetrieval(tasks[t]) ELSE tasks[t]]
       /\ delivered' = [t \in AllTaskIds |->
                          IF t \in S THEN delivered[t] + 1 ELSE delivered[t]]
       /\ UNCHANGED <<accepted, subsec>>
       /\ UNCHANGED <<regVars, extVars>>

\* Scheduler.MarkTaskDone, under s.mu: an unknown id returns at once, a
\* stored task is written
MarkTaskDone(taskID, success) ==
    /\ IF tasks[taskID] = NoTask
       THEN /\ slast' = [op |-> "MarkTaskDone", id |-> taskID, ret |-> <<>>]
            /\ UNCHANGED <<tasks, accepted>>
       ELSE /\ accepted[taskID] < MaxCalls
            /\ tasks' = [tasks EXCEPT ![taskID].status =
                           DoneStatus(tasks[taskID], success)]
            /\ accepted' = [accepted EXCEPT ![taskID] = accepted[taskID] + 1]
            /\ slast' = [op |-> "MarkTaskDone", id |-> taskID,
                         ret |-> <<IF success THEN "completed" ELSE "failed">>]
    /\ UNCHANGED <<delivered, subsec>>
    /\ UNCHANGED <<regVars, extVars>>

\* APIRouter.createTask: the request binds and is answered 200; neither
\* the registry nor the scheduler is called
createTask(agentID) ==
    /\ slast' = [op |-> "createTask", id |-> agentID,
                 ret |-> <<"Task created successfully">>]
    /\ UNCHANGED <<tasks, delivered, accepted, subsec>>
    /\ UNCHANGED <<regVars, extVars>>

\* APIRouter.cancelTask: the request is answered 200 "Task cancelled"; the
\* scheduler is not called
cancelTask(taskID) ==
    /\ slast' = [op |-> "cancelTask", id |-> taskID,
                 ret |-> <<"Task cancelled">>]
    /\ UNCHANGED <<tasks, delivered, accepted, subsec>>
    /\ UNCHANGED <<regVars, extVars>>

SchedulerNext ==
    \/ \E id \in TaskIds, a \in Hostnames : SubmitTask(id, a)
    \/ \E a \in Hostnames : GetPendingTasks(a)
    \/ \E id \in TaskIds, ok \in BOOLEAN : MarkTaskDone(id, ok)

SpecScheduler == Init /\ [][SchedulerNext]_vars

\* the clock advances within the minute
TickSubsecond ==
    /\ subsec < MaxSubsec
    /\ subsec' = subsec + 1
    /\ UNCHANGED <<tasks, delivered, accepted, slast>>
    /\ UNCHANGED <<regVars, extVars>>

\* Scheduler.ScheduleHook: a task with a generated id is submitted
ScheduleHook(agentID) == SubmitTask(generateTaskID(clock, subsec), agentID)

\* Scheduler.ScheduleCommand: a task with a generated id is submitted
ScheduleCommand(agentID) == SubmitTask(generateTaskID(clock, subsec), agentID)

\* Tasks scheduled with generated ids as time passes, and retrieved.
ScheduleNext ==
    \/ \E t \in Instants : Tick(t)
    \/ TickSubsecond
    \/ \E a \in Hostnames : ScheduleHook(a)
    \/ \E a \in Hostnames : ScheduleCommand(a)
    \/ \E a \in Hostnames : GetPendingTasks(a)

SpecSchedule == Init /\ [][ScheduleNext]_vars

\* The scheduler next to a registry in which agent h1 registers, ages and
\* is swept while h2 never registers: a task is submitted, created,
\* retrieved, reported and cancelled for an agent the registry holds, holds
\* as offline, or does not hold.
SystemNext ==
    \/ \E t \in Instants : Tick(t)
    \/ registerAgent("p1", "h1")
    \/ Register("p1")
    \/ respond("p1")
    \/ cleanupStaleAgents
    \/ \E a \in Hostnames : SubmitTask("t1", a)
    \/ \E a \in Hostnames : createTask(a)
    \/ \E a \in Hostnames : GetPendingTasks(a)
    \/ \E id \in TaskIds, ok \in BOOLEAN : MarkTaskDone(id, ok)
    \/ \E id \in TaskIds : cancelTask(id)

SpecSystem == Init /\ [][SystemNext]_vars

----------------------------------------------------------------------------
(* Task execution engine: operations *)

ExecOthers == UNCHANGED <<regVars, schedVars, wsVars, agVars, tmVars>>

\* a second passes during a call
ExecTick ==
    /\ ex.pc \notin {"idle", "returned"}
    /\ ex.elapsed < MaxElapsed
    /\ ex' = [ex EXCEPT !.elapsed = ex.elapsed + 1]
    /\ ExecOthers

\* Agent.executeTask: the switch on task.Type.  The three known kinds go
\* to Agent.executeCommand, executeScript and executeHook, which return a
\* failure without running anything; any other kind is refused.
executeTask(kind) ==
    /\ ex.pc = "idle"
    /\ ex.calls < MaxExecCalls
    /\ ex' = [ex EXCEPT
                !.pc = "returned", !.op = "executeTask", !.kind = kind,
                !.result =
                   [success |-> FALSE, output |-> "",
                    error |-> IF kind = "command"
                              THEN "command execution not implemented"
                              ELSE IF kind = "script"
                              THEN "script execution not implemented"
                              ELSE IF kind = "hook"
                              THEN "hook execution not implemented"
                              ELSE "unknown task type: " \o kind]]
    /\ ExecOthers

\* TaskExecutor.ExecuteCommand lines 29-47: the context and the command
ExecuteCommand(timeout) ==
    /\ ex.pc = "idle"
    /\ ex.calls < MaxExecCalls
    /\ ex' = [ex EXCEPT !.pc = "start", !.op = "command",
                        !.kind = "command", !.timeout = Deadline(timeout)]
    /\ ExecOthers

\* TaskExecutor.ExecuteScript lines 67-84: the context, then os.CreateTemp
ExecuteScript(timeout, created) ==
    /\ ex.pc = "idle"
    /\ ex.calls < MaxExecCalls
    /\ LET e == [ex EXCEPT !.op = "script", !.kind = "script",
                           !.timeout = Deadline(timeout)]
       IN ex' = IF created
                THEN [e EXCEPT !.pc = "write", !.tmp = "exists"]
                ELSE Returned(e, "create failed", "script", "")
    /\ ExecOthers

\* lines 87-91: tmpFile.WriteString(script), tmpFile.Close()
scriptWrite(written) ==
    /\ ex.pc = "write"
    /\ ex' = IF written
             THEN [ex EXCEPT !.pc = "chmod"]
             ELSE Returned(ex, "write failed", "script", "")
    /\ ExecOthers

\* lines 94-97: os.Chmod(tmpFile.Name(), 0755)
scriptChmod(changed) ==
    /\ ex.pc = "chmod"
    /\ ex' = IF changed
             THEN [ex EXCEPT !.pc = "start"]
             ELSE Returned(ex, "chmod failed", "script", "")
    /\ ExecOthers

\* cmd.CombinedOutput, its Start: a context that is already done refuses
\* the start, otherwise the child process runs
cmdStart ==
    /\ ex.pc = "start"
    /\ ex' = IF CtxDone(ex)
             THEN Returned(ex, "context deadline exceeded", ex.op, "")
             ELSE [ex EXCEPT !.pc = "wait", !.process = "running",
                             !.started = ex.started + 1]
    /\ ExecOthers

\* the child process ends by itself: exit status 0, exit status 1, or
\* killed by a signal it got from elsewhere
processExit(how) ==
    /\ ex.process = "running"
    /\ ex' = [ex EXCEPT !.process = how]
    /\ ExecOthers

\* the watcher of exec.CommandContext: the context is done, the process is
\* killed; a process that has ended and is not yet waited for takes the
\* signal too
ctxKill ==
    /\ ex.pc = "wait"
    /\ CtxDone(ex)
    /\ ex.watchErr = ""
    /\ ex' = IF ex.process = "running"
             THEN [ex EXCEPT !.process = "ctxkilled", !.timedOut = TRUE,
                             !.watchErr = "context deadline exceeded"]
             ELSE [ex EXCEPT !.watchErr = "context deadline exceeded"]
    /\ ExecOthers

\* cmd.CombinedOutput returns; lines 52-63 (command) and 103-114 (script)
cmdWait ==
    /\ ex.pc = "wait"
    /\ ex.process \in {"exit0", "exit1", "signaled", "ctxkilled"}
    /\ ex' = Returned(ex, WaitErr(ex), ex.op,
                      IF ex.process = "exit0" THEN "out" ELSE "")
    /\ ExecOthers

\* TaskExecutor.ExecuteHook lines 118-138: the context, the goroutine
ExecuteHook(name, timeout) ==
    /\ ex.pc = "idle"
    /\ ex.calls < MaxExecCalls
    /\ ex' = [ex EXCEPT !.pc = "select", !.op = "hook", !.kind = "hook",
                        !.name = name, !.timeout = Deadline(timeout),
                        !.plugin = "spawned"]
    /\ ExecOthers

\* the goroutine enters PluginManager.ExecutePlugin: under pm.mutex.RLock
\* the plugin is looked up and, when found, its Execute is entered
ExecutePlugin ==
    /\ ex.plugin = "spawned"
    /\ ex' = IF PluginExists(ex.name)
             THEN [ex EXCEPT !.plugin = "running",
                             !.invoked = ex.invoked + 1]
             ELSE [ex EXCEPT !.plugin = "notfound"]
    /\ ExecOthers

\* plugin.Execute returns; the lock is released and done is closed
pluginReturn(ok) ==
    /\ ex.plugin = "running"
    /\ ex' = [ex EXCEPT !.plugin = IF ok THEN "ok" ELSE "failed"]
    /\ ExecOthers

\* lines 141-144: the select takes ctx.Done()
hookTimeout ==
    /\ ex.pc = "select"
    /\ CtxDone(ex)
    /\ ex' = [Returned(ex, "context deadline exceeded", "plugin", "")
                EXCEPT !.timedOut = TRUE]
    /\ ExecOthers

\* lines 145-152: the select takes done
hookDone ==
    /\ ex.pc = "select"
    /\ ex.plugin \in {"ok", "failed", "notfound"}
    /\ ex' = Returned(ex,
                      IF ex.plugin = "ok" THEN ""
                      ELSE IF ex.plugin = "failed" THEN "plugin failed"
                      ELSE "plugin " \o ex.name \o " not found",
                      "plugin",
                      IF ex.plugin = "ok" THEN "out" ELSE "")
    /\ ExecOthers

\* the caller has the result; the engine is ready for the next call once
\* no goroutine of the last one is left
execNext ==
    /\ ex.pc = "returned"
    /\ ex.plugin \notin {"spawned", "running"}
    /\ ex' = [ExecIdle EXCEPT !.calls = ex.calls + 1]
    /\ ExecOthers

ExecNext ==
    \/ ExecTick
    \/ \E k \in KindInputs : executeTask(k)
    \/ \E t \in TimeoutInputs : ExecuteCommand(t)
    \/ \E t \in TimeoutInputs, ok \in BOOLEAN : ExecuteScript(t, ok)
    \/ \E ok \in BOOLEAN : scriptWrite(ok)
    \/ \E ok \in BOOLEAN : scriptChmod(ok)
    \/ cmdStart
    \/ \E how \in {"exit0", "exit1", "signaled"} : processExit(how)
    \/ ctxKill
    \/ cmdWait
    \/ \E n \in PluginInputs, t \in TimeoutInputs : ExecuteHook(n, t)
    \/ ExecutePlugin
    \/ \E ok \in BOOLEAN : pluginReturn(ok)
    \/ hookTimeout
    \/ hookDone
    \/ execNext

SpecExec == Init /\ [][ExecNext]_vars

----------------------------------------------------------------------------
(* Push channel: operations *)

WsOthers == UNCHANGED <<regVars, schedVars, execVars, agVars, tmVars>>

\* HandleWebSocket lines 79-97: the upgrade, the Client, and the handler
\* waiting to hand the client to the hub
HandleWebSocket(c, id, agentID) ==
    /\ ~ws.crashed
    /\ ws.conn[c].st = "new"
    /\ ws' = [ws EXCEPT !.conn[c].st = "open", !.conn[c].id = id,
                        !.conn[c].agentID = agentID,
                        !.conn[c].rd = "register"]
    /\ WsOthers

\* Run lines 54-56 with HandleWebSocket lines 97-101: the hub takes the
\* client from the register channel and stores its connection under its
\* ID; the handler starts the two pumps
hubRegister(c) ==
    /\ ~ws.crashed
    /\ ws.hub.pc = "select"
    /\ ws.conn[c].rd = "register"
    /\ ws' = [ws EXCEPT !.clients[ws.conn[c].id] = c,
                        !.conn[c].rd = "read", !.conn[c].wr = "run"]
    /\ WsOthers

\* Run lines 58-63: the hub takes the client from the unregister channel;
\* the entry under its ID is deleted and the connection stored there closed
hubUnregister(c) ==
    /\ ~ws.crashed
    /\ ws.hub.pc = "select"
    /\ ws.conn[c].rd = "unregister"
    /\ LET k == ws.conn[c].id
       IN  ws' = IF ws.clients[k] # NoConn
                 THEN [ws EXCEPT !.conn[ws.clients[k]].st = "closed",
                                 !.clients[k] = NoConn,
                                 !.conn[c].rd = "close"]
                 ELSE [ws EXCEPT !.conn[c].rd = "close"]
    /\ WsOthers

\* readPump lines 149-152: after the unregister, the deferred Close
readClose(c) ==
    /\ ~ws.crashed
    /\ ws.conn[c].rd = "close"
    /\ ws' = [ws EXCEPT !.conn[c].st = "closed", !.conn[c].rd = "done"]
    /\ WsOthers

\* readPump lines 162-173 with handleMessage lines 177-183: a message read
\* from the peer is echoed on the Send channel, where the pump waits when
\* the channel is full
readMessage(c) ==
    /\ ~ws.crashed
    /\ ws.conn[c].rd = "read"
    /\ ws.conn[c].st = "open" /\ ws.conn[c].peer = "ok"
    /\ ws' = IF ws.conn[c].send < SendCap
             THEN [ws EXCEPT !.conn[c].send = @ + 1]
             ELSE [ws EXCEPT !.conn[c].rd = "echo"]
    /\ WsOthers

\* handleMessage line 182: the Send channel takes the echo once there is
\* room
handleMessage(c) ==
    /\ ~ws.crashed
    /\ ws.conn[c].rd = "echo"
    /\ ws.conn[c].send < SendCap
    /\ ws' = [ws EXCEPT !.conn[c].send = @ + 1, !.conn[c].rd = "read"]
    /\ WsOthers

\* readPump lines 163-169: ReadMessage returns an error (closed socket,
\* failed transport, or no pong before the read deadline) and the pump
\* leaves its loop
readError(c) ==
    /\ ~ws.crashed
    /\ ws.conn[c].rd = "read"
    /\ ws.conn[c].st = "closed" \/ ws.conn[c].peer # "ok"
    /\ ws' = [ws EXCEPT !.conn[c].rd = "unregister"]
    /\ WsOthers

\* a write entered on connection c while another activity is inside a
\* write on it: the library panics when it sees the other writer
concurrentWrite(c) ==
    /\ ~ws.crashed
    /\ Inside(ws, c)
    /\ \/ ws.conn[c].wr = "run"
       \/ ws.hub.pc = "range" /\ \E k \in ws.hub.todo : ws.clients[k] = c
       \/ /\ ws.sa.pc = "range"
          /\ \E k \in ws.sa.todo :
                SendTarget(k, ws.sa.target) /\ ws.clients[k] = c
    /\ ws' = [ws EXCEPT !.crashed = TRUE]
    /\ WsOthers

\* Run lines 55, 60 with SendToAgent line 192: the hub is about to insert
\* into or delete from the table while SendToAgent ranges over it; the
\* runtime aborts the process when it sees the two
concurrentMapAccess ==
    /\ ~ws.crashed
    /\ ws.sa.pc = "range"
    /\ ws.hub.pc = "select"
    /\ \E c \in Conns : ws.conn[c].rd \in {"register", "unregister"}
    /\ ws' = [ws EXCEPT !.crashed = TRUE]
    /\ WsOthers

\* writePump lines 114-136: the deadline is set and the queued messages
\* are written; an error ends the pump, which closes the connection
pumpWrite(c) ==
    /\ ~ws.crashed
    /\ ws.conn[c].wr = "run"
    /\ ws.conn[c].send > 0
    /\ ~Inside(ws, c)
    /\ ws' = IF PumpOutcome(ws.conn[c]) = "ok"
             THEN [ws EXCEPT !.conn[c].send = 0, !.conn[c].dl = "set"]
             ELSE [ws EXCEPT !.conn[c].send = @ - 1, !.conn[c].dl = "set",
                             !.conn[c].wr = "done", !.conn[c].st = "closed"]
    /\ WsOthers

\* writePump lines 138-142: the ticker fires and a ping is written
pumpPing(c) ==
    /\ ~ws.crashed
    /\ ws.conn[c].wr = "run"
    /\ ~Inside(ws, c)
    /\ ws' = IF PumpOutcome(ws.conn[c]) = "ok"
             THEN [ws EXCEPT !.conn[c].dl = "set"]
             ELSE [ws EXCEPT !.conn[c].dl = "set",
                             !.conn[c].wr = "done", !.conn[c].st = "closed"]
    /\ WsOthers

\* the peer of a registered connection stops reading
peerStall(c) ==
    /\ ~ws.crashed
    /\ ws.conn[c].rd \in {"read", "echo"}
    /\ ws.conn[c].st = "open" /\ ws.conn[c].peer = "ok"
    /\ ws' = [ws EXCEPT !.conn[c].peer = "stalled"]
    /\ WsOthers

\* the transport of a registered connection fails
peerFail(c) ==
    /\ ~ws.crashed
    /\ ws.conn[c].rd \in {"read", "echo"}
    /\ ws.conn[c].st = "open" /\ ws.conn[c].peer # "failed"
    /\ ws' = [ws EXCEPT !.conn[c].peer = "failed"]
    /\ WsOthers

\* BroadcastMessage lines 186-188: the caller sends on the unbuffered
\* broadcast channel and waits for the hub to receive
BroadcastMessage ==
    /\ ~ws.crashed
    /\ ws.bc.pc = "idle"
    /\ ws.bc.n < MaxBroadcasts
    /\ ws' = [ws EXCEPT !.bc.pc = "send", !.bc.n = @ + 1]
    /\ WsOthers

\* Run lines 65-66: the hub receives the message and begins to range over
\* the table
hubBroadcast ==
    /\ ~ws.crashed
    /\ ws.hub.pc = "select"
    /\ ws.bc.pc = "send"
    /\ ws' = [ws EXCEPT !.bc.pc = "idle",
                        !.hub = [pc |-> "range", msg |-> ws.bc.n,
                                 todo |-> WsKeys(ws), cur |-> "",
                                 start |-> WsRegistered(ws),
                                 failed |-> {}]]
    /\ WsOthers

\* Run lines 66-67: the next entry of the range, in any order, and the
\* call of conn.WriteMessage
hubRange(k) ==
    /\ ~ws.crashed
    /\ ws.hub.pc = "range"
    /\ k \in ws.hub.todo
    /\ ws' = [ws EXCEPT !.hub.pc = "write", !.hub.cur = k]
    /\ WsOthers

\* Run lines 67-72: the write returns
hubWrite(out) ==
    /\ ~ws.crashed
    /\ ws.hub.pc = "write"
    /\ LET k == ws.hub.cur
           c == ws.clients[k]
           w == [ws EXCEPT !.hub.pc = "range", !.hub.todo = @ \ {k},
                           !.hub.cur = ""]
       IN  /\ out \in WriteOutcome(ws.conn[c])
           /\ ws' = IF out = "error"
                    THEN hubWriteFailed(w, k)
                    ELSE [w EXCEPT !.conn[c].got = @ \cup {ws.hub.msg}]
    /\ WsOthers

\* Run lines 66-73: the range is over and the hub selects again
hubEnd ==
    /\ ~ws.crashed
    /\ ws.hub.pc = "range"
    /\ ws.hub.todo = {}
    /\ ws' = [ws EXCEPT !.hub = [pc |-> "select", msg |-> 0, todo |-> {},
                                 cur |-> "", start |-> {},
                                 failed |-> {}]]
    /\ WsOthers

\* SendToAgent lines 191-192: the caller begins to range over the table
SendToAgent(agentID) ==
    /\ ~ws.crashed
    /\ ws.sa.pc = "idle"
    /\ ws.sa.n < MaxSendTo
    /\ ws' = [ws EXCEPT !.sa = [pc |-> "range", n |-> ws.sa.n + 1,
                                target |-> agentID, todo |-> WsKeys(ws),
                                cur |-> NoConn]]
    /\ WsOthers

\* SendToAgent lines 192-195: the next entry; the message is written to
\* the entry whose key is the agent id
sendRange(k) ==
    /\ ~ws.crashed
    /\ ws.sa.pc = "range"
    /\ k \in ws.sa.todo
    /\ ws' = IF SendTarget(k, ws.sa.target) /\ ws.clients[k] # NoConn
             THEN [ws EXCEPT !.sa.pc = "write", !.sa.cur = ws.clients[k],
                             !.sa.todo = @ \ {k}]
             ELSE [ws EXCEPT !.sa.todo = @ \ {k}]
    /\ WsOthers

\* SendToAgent lines 195-198: the write returns; an error is printed
sendWrite(out) ==
    /\ ~ws.crashed
    /\ ws.sa.pc = "write"
    /\ LET c == ws.sa.cur
           w == [ws EXCEPT !.sa.pc = "range", !.sa.cur = NoConn]
       IN  /\ out \in WriteOutcome(ws.conn[c])
           /\ ws' = IF out = "error" THEN w
                    ELSE [w EXCEPT !.conn[c].direct = @ + 1]
    /\ WsOthers

\* SendToAgent line 200: the range is over
sendEnd ==
    /\ ~ws.crashed
    /\ ws.sa.pc = "range"
    /\ ws.sa.todo = {}
    /\ ws' = [ws EXCEPT !.sa.pc = "idle", !.sa.target = ""]
    /\ WsOthers

\* The first connection is a dashboard with client id h1 and no agent id;
\* the second is the agent h1, under its own client id or under h1.
wsConnect ==
    \/ HandleWebSocket("c1", "h1", "")
    \/ \E id \in WsClientIds : HandleWebSocket("c2", id, "h1")

\* the hub with its broadcasts, the read pumps, the pings and the peers
WsNext ==
    \/ wsConnect
    \/ \E c \in Conns :
          \/ hubRegister(c)
          \/ hubUnregister(c)
          \/ readClose(c)
          \/ readError(c)
          \/ concurrentWrite(c)
          \/ pumpPing(c)
          \/ peerStall(c)
          \/ peerFail(c)
    \/ BroadcastMessage
    \/ hubBroadcast
    \/ \E k \in WsClientIds : hubRange(k)
    \/ \E out \in {"ok", "error"} : hubWrite(out)
    \/ hubEnd

\* the hub's table, the pumps with the Send queues, the peers and the
\* callers of SendToAgent
SendNext ==
    \/ wsConnect
    \/ \E c \in Conns :
          \/ hubRegister(c)
          \/ hubUnregister(c)
          \/ readClose(c)
          \/ readMessage(c)
          \/ handleMessage(c)
          \/ readError(c)
          \/ concurrentWrite(c)
          \/ pumpWrite(c)
          \/ pumpPing(c)
          \/ peerStall(c)
          \/ peerFail(c)
    \/ concurrentMapAccess
    \/ \E a \in WsAgentIds \ {""} : SendToAgent(a)
    \/ \E k \in WsClientIds : sendRange(k)
    \/ \E out \in {"ok", "error"} : sendWrite(out)
    \/ sendEnd

SpecWs == Init /\ [][WsNext]_vars
SpecSend == Init /\ [][SendNext]_vars

\* The goroutines of the server are scheduled: the hub loop takes a
\* register, an unregister or a broadcast that is offered to it and goes
\* on with its range, a pump takes a step that is open to it, and the
\* tickers and the read deadline fire.  Nothing is assumed about the peers,
\* the clients that connect, the callers of BroadcastMessage and
\* SendToAgent, or about which way a concurrent write goes.
wsScheduling ==
    /\ \A c \in Conns :
          /\ WF_vars(hubRegister(c))
          /\ WF_vars(hubUnregister(c))
          /\ WF_vars(readClose(c))
          /\ WF_vars(handleMessage(c))
          /\ WF_vars(readError(c))
          /\ WF_vars(pumpWrite(c))
          /\ WF_vars(pumpPing(c))
    /\ WF_vars(hubBroadcast)
    /\ WF_vars(\E k \in WsClientIds : hubRange(k))
    /\ WF_vars(\E out \in {"ok", "error"} : hubWrite(out))
    /\ WF_vars(hubEnd)
    /\ WF_vars(\E k \in WsClientIds : sendRange(k))
    /\ WF_vars(\E out \in {"ok", "error"} : sendWrite(out))
    /\ WF_vars(sendEnd)

SpecSendLive == SpecSend /\ wsScheduling

----------------------------------------------------------------------------
(* Agent runtime loop: operations *)

AgOthers == UNCHANGED <<regVars, schedVars, execVars, wsVars, tmVars>>

\* main line 44, Register lines 111-128: the registration request is sent
mainRegister ==
    /\ ag.main = "idle"
    /\ ag' = [ag EXCEPT !.main = "registering"]
    /\ AgOthers

\* Register lines 129-156 and main lines 44-47: a 200 answer makes the
\* agent registered, with the id of the answer if it holds one; anything
\* else is an error, on which main exits
registerResponse(resp) ==
    /\ ag.main = "registering"
    /\ ag' = [ag EXCEPT !.main = afterRegister(resp),
                        !.registered = resp \in {"ok", "undecodable"},
                        !.agentID = IF resp = "ok" THEN AgentHost ELSE ""]
    /\ AgOthers

\* main line 50: go agent.StartHeartbeat()
mainStartHeartbeat ==
    /\ ag.main = "registered"
    /\ ag' = [ag EXCEPT !.main = "started", !.hb.pc = "spawned"]
    /\ AgOthers

\* main lines 53-58: go agent.StartTaskListener(), then main waits for a
\* signal
mainStartTaskListener ==
    /\ ag.main = "started"
    /\ ag' = [ag EXCEPT !.main = "running", !.tl.pc = "spawned"]
    /\ AgOthers

\* StartHeartbeat lines 223-231: wg.Add(1) and the loop
StartHeartbeat ==
    /\ AgentAlive
    /\ ag.hb.pc = "spawned"
    /\ ag' = [ag EXCEPT !.hb.pc = "wait", !.wg = @ + 1]
    /\ AgOthers

\* StartTaskListener lines 299-308: wg.Add(1) and the loop
StartTaskListener ==
    /\ AgentAlive
    /\ ag.tl.pc = "spawned"
    /\ ag' = [ag EXCEPT !.tl.pc = "wait", !.wg = @ + 1]
    /\ AgOthers

\* StartHeartbeat line 234 and heartbeat lines 244-284: the select
\* receives a tick, one that arrives while the loop waits or one that the
\* ticker has buffered (which the select may take even when stopChan is
\* closed), and, if the agent is registered, the heartbeat request is sent
heartbeatTick ==
    /\ AgentAlive
    /\ ag.hb.pc = "wait"
    /\ ag.hb.tick \/ ~ag.stopClosed
    /\ ag' = IF ag.registered
             THEN [ag EXCEPT !.hb.pc = "request", !.hb.tick = FALSE]
             ELSE [ag EXCEPT !.hb.tick = FALSE]
    /\ AgOthers

\* heartbeat lines 284-295 and StartHeartbeat lines 235-237: the answer, or
\* the error, which is logged; the ticker may have fired meanwhile
heartbeatResponse(resp, fired) ==
    /\ AgentAlive
    /\ ag.hb.pc = "request"
    /\ resp # "undecodable"
    /\ ag' = [ag EXCEPT !.hb.pc = afterRequest(resp), !.hb.last = resp,
                        !.hb.tick = fired]
    /\ AgOthers

\* StartHeartbeat lines 232-233 and 226: stopChan is closed and the loop
\* returns
heartbeatStop ==
    /\ AgentAlive
    /\ ag.hb.pc = "wait"
    /\ ag.stopClosed
    /\ ag' = [ag EXCEPT !.hb.pc = "exit", !.wg = @ - 1]
    /\ AgOthers

\* StartTaskListener line 311 and fetchTasks lines 322-331: the select
\* receives a tick and GET /api/tasks is sent
fetchTick ==
    /\ AgentAlive
    /\ ag.tl.pc = "wait"
    /\ ag.tl.tick \/ ~ag.stopClosed
    /\ ag' = [ag EXCEPT !.tl.pc = "request", !.tl.tick = FALSE]
    /\ AgOthers

\* StartTaskListener lines 312-315: an executeTask goroutine is started
\* for each task of the answer
Spawn(a, S) ==
    [a EXCEPT !.run = [t \in TaskIds |-> IF t \in S THEN @[t] + 1 ELSE @[t]],
              !.executed = [t \in TaskIds |->
                              IF t \in S THEN @[t] + 1 ELSE @[t]]]

\* fetchTasks lines 331-352 with the coordinator's listTasks: the answer
\* holds no task; an error, another status or a body that does not decode
\* gives no task either; the ticker may have fired meanwhile
fetchResponse(resp, fired) ==
    /\ AgentAlive
    /\ ag.tl.pc = "request"
    /\ LET S == IF resp = "ok" THEN listTasks ELSE {}
       IN  ag' = [Spawn(ag, S) EXCEPT !.tl.pc = afterRequest(resp),
                                      !.tl.last = resp, !.tl.tick = fired]
    /\ AgOthers

\* fetchTasks answered from Scheduler.GetPendingTasks: the answer holds
\* the pending tasks of the agent
fetchFromScheduler(fired) ==
    /\ AgentAlive
    /\ ag.tl.pc = "request"
    /\ LET S == PendingOf(tasks, AgentHost)
       IN  /\ \A t \in S : /\ t \in TaskIds
                           /\ ag.executed[t] < MaxRuns
                           /\ delivered[t] < MaxCalls
           /\ ag' = [Spawn(ag, S) EXCEPT !.tl.pc = afterRequest("ok"),
                                         !.tl.last = "ok",
                                         !.tl.tick = fired]
           /\ tasks' = [t \in AllTaskIds |->
                          IF t \in S THEN AfterRetrieval(tasks[t])
                          ELSE tasks[t]]
           /\ delivered' = [t \in AllTaskIds |->
                              IF t \in S THEN delivered[t] + 1
                              ELSE delivered[t]]
           /\ slast' = [op |-> "GetPendingTasks", id |-> AgentHost,
                        ret |-> <<>>]
    /\ UNCHANGED <<accepted, subsec>>
    /\ UNCHANGED <<regVars, execVars, wsVars, tmVars>>

\* StartTaskListener lines 309-310 and 302: stopChan is closed and the
\* loop returns
fetchStop ==
    /\ AgentAlive
    /\ ag.tl.pc = "wait"
    /\ ag.stopClosed
    /\ ag' = [ag EXCEPT !.tl.pc = "exit", !.wg = @ - 1]
    /\ AgOthers

\* executeTask lines 356-376 and reportTaskResult lines 410-426: the task
\* has run and its result is sent
reportTaskResult(t) ==
    /\ AgentAlive
    /\ ag.run[t] > 0
    /\ ag' = [ag EXCEPT !.run[t] = @ - 1, !.reporting[t] = @ + 1]
    /\ AgOthers

\* reportTaskResult lines 426-435 with Handler.SubmitTaskResult: the
\* result is received, or the request fails; the goroutine ends
reportResponse(t, resp) ==
    /\ AgentAlive
    /\ ag.reporting[t] > 0
    /\ resp # "undecodable"
    /\ ag' = [ag EXCEPT !.reporting[t] = @ - 1]
    /\ AgOthers

\* main lines 58-61 and Stop line 447: the signal arrives and Stop closes
\* stopChan
Stop ==
    /\ ag.main = "running"
    /\ ag' = [ag EXCEPT !.main = "stopping", !.stopClosed = TRUE]
    /\ AgOthers

\* Stop lines 448-450: wg.Wait returns when the counter is zero
stopReturn ==
    /\ ag.main = "stopping"
    /\ ag.wg = 0
    /\ ag' = [ag EXCEPT !.main = "stopped"]
    /\ AgOthers

\* main line 62: main returns and the process ends
mainReturn ==
    /\ ag.main = "stopped"
    /\ ag' = [ag EXCEPT !.main = "exited"]
    /\ AgOthers

\* the agent process apart from its task retrieval
agentSteps ==
    \/ mainRegister
    \/ \E resp \in Responses : registerResponse(resp)
    \/ mainStartHeartbeat
    \/ mainStartTaskListener
    \/ StartHeartbeat
    \/ StartTaskListener
    \/ heartbeatTick
    \/ \E resp \in Responses, fired \in BOOLEAN :
          heartbeatResponse(resp, fired)
    \/ heartbeatStop
    \/ fetchTick
    \/ fetchStop
    \/ Stop
    \/ stopReturn
    \/ mainReturn

\* the agent and the coordinator as they are wired: tasks are submitted to
\* the scheduler and GET /api/tasks is served by listTasks
AgentNext ==
    \/ agentSteps
    \/ \E resp \in Responses, fired \in BOOLEAN : fetchResponse(resp, fired)
    \/ SubmitTask("t1", AgentHost)

SpecAgent == Init /\ [][AgentNext]_vars

\* The agent's main and loops are scheduled, their tickers fire and their
\* requests return (the client has a timeout); a select that finds
\* stopChan closed again and again takes it in the end.  Nothing is
\* assumed about
\* the signal that stops the agent or about the submission of tasks.
agentScheduling ==
    /\ WF_vars(mainRegister)
    /\ WF_vars(\E resp \in Responses : registerResponse(resp))
    /\ WF_vars(mainStartHeartbeat)
    /\ WF_vars(mainStartTaskListener)
    /\ WF_vars(StartHeartbeat)
    /\ WF_vars(StartTaskListener)
    /\ WF_vars(heartbeatTick)
    /\ WF_vars(\E resp \in Responses, fired \in BOOLEAN :
                  heartbeatResponse(resp, fired))
    /\ SF_vars(heartbeatStop)
    /\ WF_vars(fetchTick)
    /\ WF_vars(\E resp \in Responses, fired \in BOOLEAN :
                  fetchResponse(resp, fired))
    /\ SF_vars(fetchStop)
    /\ WF_vars(stopReturn)
    /\ WF_vars(mainReturn)

SpecAgentLive == SpecAgent /\ agentScheduling

\* the agent's loop with its polls answered from the scheduler; one task
\* is submitted, once
PollNext ==
    \/ agentSteps
    \/ \E resp \in RequestFailures, fired \in BOOLEAN :
          fetchResponse(resp, fired)
    \/ \E fired \in BOOLEAN : fetchFromScheduler(fired)
    \/ \E t \in TaskIds : reportTaskResult(t)
    \/ \E t \in TaskIds, resp \in Responses : reportResponse(t, resp)
    \/ tasks["t1"] = NoTask /\ SubmitTask("t1", AgentHost)

SpecPoll == Init /\ [][PollNext]_vars

----------------------------------------------------------------------------
(* Token manager: operations *)

TmOthers == UNCHANGED <<regVars, schedVars, execVars, wsVars, agVars>>

\* time passes
TokenTick ==
    /\ tm.now < MaxTokenClock
    /\ tm' = [tm EXCEPT !.now = @ + 1]
    /\ TmOthers

\* TokenManager.GenerateToken
GenerateToken(agentID) ==
    /\ tm.made < MaxTokens
    /\ LET token == tm.made + 1
       IN  tm' = [tm EXCEPT !.tokens[token] = NewTokenInfo(tm.now, agentID),
                            !.made = token,
                            !.last = [op |-> "GenerateToken",
                                      arg |-> NoToken, ret |-> token,
                                      err |-> ""]]
    /\ TmOthers

\* TokenManager.ValidateToken
ValidateToken(token) ==
    /\ tm' = [tm EXCEPT !.last = [op |-> "ValidateToken", arg |-> token,
                                  ret |-> IF Accepts(tm, token) THEN token
                                          ELSE NoToken,
                                  err |-> ValidateError(tm, token)]]
    /\ TmOthers

\* TokenManager.RevokeToken
RevokeToken(token) ==
    /\ tm' = IF tm.tokens[token].present
             THEN [tm EXCEPT !.tokens[token].isActive = FALSE,
                             !.last = [op |-> "RevokeToken", arg |-> token,
                                       ret |-> NoToken, err |-> ""]]
             ELSE [tm EXCEPT !.last = [op |-> "RevokeToken", arg |-> token,
                                       ret |-> NoToken,
                                       err |-> "token not found"]]
    /\ TmOthers

\* TokenManager.RotateToken, under tm.mutex: unless the old token is
\* refused, a new active token is made for its agent and the old token is
\* deactivated
RotateToken(oldToken) ==
    /\ LET err == RotateError(tm, oldToken)
           token == tm.made + 1
       IN  IF err # ""
           THEN tm' = [tm EXCEPT !.last = [op |-> "RotateToken",
                                           arg |-> oldToken,
                                           ret |-> NoToken, err |-> err]]
           ELSE /\ tm.made < MaxTokens
                /\ tm' = [tm EXCEPT
                            !.tokens[token] =
                                NewTokenInfo(tm.now,
                                             tm.tokens[oldToken].agentID),
                            !.tokens[oldToken].isActive = FALSE,
                            !.made = token,
                            !.last = [op |-> "RotateToken",
                                      arg |-> oldToken, ret |-> token,
                                      err |-> ""]]
    /\ TmOthers

\* TokenManager.CleanupExpiredTokens, called by startTokenRotation
CleanupExpiredTokens ==
    /\ tm' = [tm EXCEPT !.tokens =
                [k \in Tokens |-> IF @[k].present /\ tm.now > @[k].expiresAt
                                  THEN NoTokenInfo ELSE @[k]],
                        !.last = [op |-> "CleanupExpiredTokens",
                                  arg |-> NoToken, ret |-> NoToken,
                                  err |-> ""]]
    /\ TmOthers

TokenNext ==
    \/ TokenTick
    \/ \E a \in TokenAgents : GenerateToken(a)
    \/ \E k \in Tokens : ValidateToken(k)
    \/ \E k \in Tokens : RevokeToken(k)
    \/ \E k \in Tokens : RotateToken(k)
    \/ CleanupExpiredTokens

SpecToken == Init /\ [][TokenNext]_vars

----------------------------------------------------------------------------
(* Properties *)

\* C1: a task appears in the result of at most one GetPendingTasks call:
\* retrieval claims what it returns, so a second call without a new
\* submission does not return the task again.
C1_AtMostOneDelivery == \A t \in TaskIds : delivered[t] <= 1

\* C2: for every task, at most one MarkTaskDone call is accepted (writes
\* the task); a later report for the same task is refused and leaves the
\* task as the first report stored it.
C2_ReportAcceptedOnce == \A t \in TaskIds : accepted[t] <= 1

LifecycleSteps ==
    {<<"absent", "pending">>, <<"pending", "dispatched">>,
     <<"pending", "cancelled">>, <<"dispatched", "succeeded">>,
     <<"dispatched", "failed">>, <<"dispatched", "cancelled">>}

\* C3: the status of a task only moves pending -> dispatched -> one of
\* succeeded, failed, cancelled: no step skips dispatched on the way to a
\* final status, none leaves a final status, none returns to pending.
C3_MonotonicLifecycle ==
    [][\A t \in TaskIds :
         tasks'[t].status # tasks[t].status
            => <<tasks[t].status, tasks'[t].status>> \in LifecycleSteps]_vars

\* C4: last_seen of a registered agent never decreases, whatever the
\* interleaving of the heartbeats and registrations processed for it.
C4_LastSeenNonDecreasing ==
    [][\A k \in Present(agents) :
         heap'[agents'[k]].lastSeen >= heap[agents[k]].lastSeen]_vars

C6_HeartbeatRecoversOffline ==
    [][\A p \in Procs :
         /\ (hbUpdate(p) /\ proc[p].wasOffline)
               => heap'[agents'[proc[p].key]].status = "online"
         /\ (HeartbeatUpdate(p) /\ proc[p].wasOffline)
               => heap'[agents'[proc[p].info.hostname]].status = "online"]_vars

\* C7: the handler stamps the record with its reading of the clock, and
\* when Register returns id, Get(id) is found with status online and with
\* registered_at and last_seen equal to that reading.
C7_RegisterStoresOnlineNow ==
    [][\A p \in Procs :
         /\ (proc[p].pc = "idle" /\ proc'[p].pc = "Register")
               => /\ proc'[p].info.registeredAt = clock
                  /\ proc'[p].info.lastSeen = clock
         /\ Register(p)
               => LET id == proc'[p].key
                  IN /\ Get(agents', id) # NilRef
                     /\ heap'[Get(agents', id)].status = "online"
                     /\ heap'[Get(agents', id)].registeredAt
                           = proc[p].info.registeredAt
                     /\ heap'[Get(agents', id)].lastSeen
                           = proc[p].info.lastSeen]_vars

\* C7 witness: Register has returned an id to registerAgent at a time
\* other than the initial one, and the agent is stored under that id.
C7_Witness ==
    \E p \in Procs :
       /\ proc[p].pc = "respond" /\ proc[p].op = "registerAgent"
       /\ agents[proc[p].key] # NilRef
       /\ heap[agents[proc[p].key]].registeredAt = clock
       /\ clock > 1

C9_HeartbeatSetsOnlineNow ==
    [][\A p \in Procs :
         /\ hbUpdate(p)
               => /\ heap'[agents'[proc[p].key]].status = "online"
                  /\ heap'[agents'[proc[p].key]].lastSeen = proc[p].info.lastSeen
         /\ (HeartbeatUpdate(p) /\ agents[proc[p].info.hostname] # NilRef)
               => /\ heap'[agents'[proc[p].info.hostname]].status = "online"
                  /\ heap'[agents'[proc[p].info.hostname]].lastSeen
                        = proc[p].info.lastSeen]_vars

\* the step at which the registry call of a heartbeat for an id the
\* registry does not hold returns to handler p
UnknownHeartbeat(p) ==
    \/ /\ proc[p].pc = "idle"
       /\ proc'[p].pc = "respond"
       /\ proc'[p].op = "agentHeartbeat"
    \/ /\ HeartbeatUpdate(p)
       /\ agents[proc[p].info.hostname] = NilRef

C11_SubmitValidatesTarget ==
    [][\A id \in TaskIds, a \in Hostnames :
         (SubmitTask(id, a) /\ Get(agents, a) = NilRef)
            => tasks' = tasks]_vars

\* C12: a submission whose target agent the registry holds with status
\* offline is rejected and leaves the task store unchanged (the task is
\* not stored as pending).
C12_SubmitRejectsOffline ==
    [][\A id \in TaskIds, a \in Hostnames :
         (/\ SubmitTask(id, a)
          /\ Get(agents, a) # NilRef
          /\ heap[Get(agents, a)].status = "offline")
            => tasks' = tasks]_vars

\* C13: MarkTaskDone for a task that is not dispatched (pending, already
\* final, or not stored) leaves the task store unchanged.
C13_ReportNeedsDispatched ==
    [][\A id \in TaskIds, ok \in BOOLEAN :
         (MarkTaskDone(id, ok) /\ tasks[id].status # "dispatched")
            => tasks' = tasks]_vars

TaskStatuses == {"pending", "dispatched", "succeeded", "failed", "cancelled"}

\* C14: a MarkTaskDone call that is accepted (writes the task) stores
\* succeeded when success is true and failed when it is false, and every
\* stored task has one of the five statuses of the lifecycle.
C14_ReportStoresOutcome ==
    [][\A id \in TaskIds, ok \in BOOLEAN :
         (MarkTaskDone(id, ok) /\ accepted'[id] > accepted[id])
            => /\ tasks'[id].status = (IF ok THEN "succeeded" ELSE "failed")
               /\ \A t \in TaskIds :
                     tasks'[t] # NoTask => tasks'[t].status \in TaskStatuses]_vars

\* C15: cancelling a task that is pending or dispatched sets its status to
\* cancelled; cancelling a final or unknown task changes nothing and is
\* answered AlreadyFinal or NotFound.
C15_CancelWhileActive ==
    [][\A id \in TaskIds :
         cancelTask(id)
            => IF tasks[id].status \in {"pending", "dispatched"}
               THEN tasks'[id].status = "cancelled"
               ELSE /\ tasks' = tasks
                    /\ slast'.ret = (IF tasks[id] = NoTask
                                     THEN <<"NotFound">>
                                     ELSE <<"AlreadyFinal">>)]_vars

\* C18: a task that was retrieved and has received no result is not
\* delivered again: no later GetPendingTasks result holds it, and only a
\* report or a cancellation of that task changes its status, whether or
\* not its target agent has been swept to offline meanwhile.
C18_NoRedelivery ==
    [][\A t \in TaskIds :
         (delivered[t] >= 1 /\ accepted[t] = 0)
            => /\ \A a \in Hostnames :
                     GetPendingTasks(a)
                        => \A i \in DOMAIN slast'.ret : slast'.ret[i] # t
               /\ tasks'[t].status # tasks[t].status
                     => \/ \E ok \in BOOLEAN : MarkTaskDone(t, ok)
                        \/ cancelTask(t)]_vars

Stored(ts) == {t \in AllTaskIds : ts[t] # NoTask}

\* C16: every submission through ScheduleHook or ScheduleCommand receives
\* an id no stored task has: it adds one task to the store and replaces
\* none, whatever the time since the previous submission.
C16_TaskIdsUnique ==
    [][\A a \in Hostnames :
         (ScheduleHook(a) \/ ScheduleCommand(a))
            => /\ tasks[slast'.id] = NoTask
               /\ Cardinality(Stored(tasks')) = Cardinality(Stored(tasks)) + 1]_vars

\* x was generated, and so submitted, in an earlier second than y
SubmittedBefore(x, y) ==
    \E c1, c2 \in Instants, s1, s2 \in 0..MaxSubsec :
       /\ x = generateTaskID(c1, s1)
       /\ y = generateTaskID(c2, s2)
       /\ \/ c1 < c2
          \/ c1 = c2 /\ s1 \div TicksPerSecond < s2 \div TicksPerSecond

\* C17: within one GetPendingTasks result the tasks of the agent appear in
\* the order of their submission: no task precedes one submitted before it.
C17_FifoPerAgent ==
    [][\A a \in Hostnames :
         GetPendingTasks(a)
            => \A i, j \in DOMAIN slast'.ret :
                  i < j => ~SubmittedBefore(slast'.ret[j], slast'.ret[i])]_vars

InsideRecord(p) == proc[p].pc \in {"hbStatus", "hbSystemInfo", "hbUpdate"}

\* C20: writers of an agent record exclude each other: while a handler is
\* between its first and its last write to a record, no step of another
\* handler or of the sweep changes that record.
C20_MutationsExclusive ==
    [][\A p \in Procs :
         (InsideRecord(p) /\ proc'[p] = proc[p])
            => heap'[proc[p].ref] = heap[proc[p].ref]]_vars

\* C21: a value obtained from Get or List is a copy: a write a handler
\* makes to the value it obtained leaves every stored agent as it was, and
\* a sweep leaves the value a handler obtained as it was.
C21_GetReturnsSnapshot ==
    [][\A p \in Procs :
         /\ (hbLastSeen(p) \/ hbStatus(p) \/ hbSystemInfo(p))
               => \A k \in Present(agents) :
                     heap'[agents'[k]] = heap[agents[k]]
         /\ (cleanupStaleAgents /\ proc[p].ref # NilRef)
               => heap'[proc[p].ref] = heap[proc[p].ref]]_vars

\* C22: every registry entry carries the hostname it is stored under, and
\* no two entries carry the same hostname.
C22_HostnameUnique ==
    /\ \A k \in Present(agents) : Agent(k).hostname = k
    /\ \A j, k \in Present(agents) :
          Agent(j).hostname = Agent(k).hostname => j = k

\* C23: when the processing of a heartbeat for a registered agent
\* completes, the agent's id and registered_at are what they were before
\* the heartbeat.
C23_HeartbeatKeepsIdentity ==
    [][\A p \in Procs :
         /\ hbUpdate(p)
               => /\ heap'[agents'[proc[p].key]].id = heap[agents[proc[p].key]].id
                  /\ heap'[agents'[proc[p].key]].registeredAt
                        = heap[agents[proc[p].key]].registeredAt
         /\ (HeartbeatUpdate(p) /\ agents[proc[p].info.hostname] # NilRef)
               => /\ heap'[agents'[proc[p].info.hostname]].id
                        = heap[agents[proc[p].info.hostname]].id
                  /\ heap'[agents'[proc[p].info.hostname]].registeredAt
                        = heap[agents[proc[p].info.hostname]].registeredAt]_vars

\* C24: when the deadline has ended a command or script (its process was
\* killed because the context was done), the call returns success = false
\* and an error that says timeout.
C24_TimeoutIndicated ==
    (ex.pc = "returned" /\ ex.op \in {"command", "script"} /\ ex.timedOut)
       => /\ ~ex.result.success
          /\ ex.result.error = ex.op \o " timeout"

\* C25: when ExecuteScript has returned, the temporary file it created
\* does not exist, whichever way it returned.
C25_TempFileRemoved ==
    (ex.pc = "returned" /\ ex.op = "script") => ex.tmp # "exists"

\* C25 witness: ExecuteScript has returned after the deadline killed the
\* script, and the file it had created is removed.
C25_Witness ==
    /\ ex.pc = "returned" /\ ex.op = "script"
    /\ ex.timedOut
    /\ ex.tmp = "removed"

\* C26: when ExecuteHook has returned on its deadline while the capability
\* has not returned, the capability has been signalled to cancel.
C26_HookCancelled ==
    (/\ ex.pc = "returned" /\ ex.op = "hook" /\ ex.timedOut
     /\ ex.plugin \in {"spawned", "running"})
       => ex.signalled

\* C27: a task of an unknown kind and a hook task naming a plugin that is
\* not registered return success = false with a non-empty error, and no
\* process was started and no capability invoked for them.
C27_UnknownFailsUnexecuted ==
    (/\ ex.pc = "returned"
     /\ \/ ex.op = "executeTask" /\ ex.kind \notin {"command", "script", "hook"}
        \/ ex.op = "hook" /\ ex.name \notin RegisteredPlugins)
       => /\ ~ex.result.success
          /\ ex.result.error # ""
          /\ ex.started = 0
          /\ ex.invoked = 0

\* C27 witness: ExecuteHook has returned the lookup failure of a plugin
\* that is not registered.
C27_Witness ==
    /\ ex.pc = "returned" /\ ex.op = "hook"
    /\ ex.name = "gpu"
    /\ ex.plugin = "notfound"
    /\ ex.result.error = "plugin gpu not found"

\* C28: a broadcast never waits on a connection that does not drain.  The
\* hub loop is never inside a write that cannot return because the peer of
\* the connection has stopped reading, and so the caller of
\* BroadcastMessage never waits behind such a write either.
C28_BroadcastNeverBlocks ==
    ~(/\ ws.hub.pc = "write"
      /\ WriteOutcome(ws.conn[ws.clients[ws.hub.cur]]) = {"blocked"})

\* C29: a transport failure during a broadcast affects only its own
\* connection.  When the hub has finished a broadcast and selects again,
\* every connection whose write failed is closed and has no entry in the
\* client table, and every other connection the table held when the
\* broadcast began still has its entry and has received the message.
C29_FailureIsolated ==
    [][(ws.hub.pc = "range" /\ ws'.hub.pc = "select") =>
         /\ \A c \in ws.hub.failed :
               /\ ws'.conn[c].st = "closed"
               /\ c \notin WsRegistered(ws')
         /\ \A c \in ws.hub.start \ ws.hub.failed :
               /\ c \in WsRegistered(ws')
               /\ ws.hub.msg \in ws'.conn[c].got
         /\ ~ws'.crashed]_vars

\* the hub is about to finish a broadcast in which the write to one
\* connection failed and another connection received the message
C29_Witness ==
    /\ ws.hub.pc = "range" /\ ws.hub.todo = {}
    /\ ws.hub.failed # {}
    /\ \E c \in ws.hub.start \ ws.hub.failed : ws.hub.msg \in ws.conn[c].got

\* C30: SendToAgent(agentID) writes the message to a connection only if
\* the AgentID of that connection is agentID, and a connection of the
\* table with that AgentID is written to when the call comes to its entry.
C30_SendToAgentId ==
    [][/\ \A c \in Conns :
             ws'.conn[c].direct # ws.conn[c].direct =>
                 ws.conn[c].agentID = ws.sa.target
       /\ \A k \in ws.sa.todo \ ws'.sa.todo :
             (/\ ws.clients[k] # NoConn
              /\ ws.conn[ws.clients[k]].agentID = ws.sa.target) =>
                 /\ ws'.sa.pc = "write"
                 /\ ws'.sa.cur = ws.clients[k]]_vars

\* C31: enqueueing on a connection's outbound queue never waits.  No read
\* pump is ever waiting in handleMessage for room in a full Send queue; a
\* connection whose queue is full is torn down instead.
C31_EnqueueNeverWaits ==
    \A c \in Conns : ws.conn[c].rd # "echo"

\* C32: a registered connection whose peer has stopped responding is
\* eventually closed and eventually has no entry in the client table,
\* however the read pump, the write pump and the hub loop interleave (a
\* process that has panicked has no connections left).
C32_DeadPeerRemoved ==
    \A c \in Conns :
        (ws.conn[c].rd \in {"read", "echo"} /\ ws.conn[c].peer # "ok")
            ~> \/ ws.conn[c].st = "closed" /\ c \notin WsRegistered(ws)
               \/ ws.crashed

\* a step on which the agent sends a heartbeat or a task-retrieval request
SendsLoopRequest ==
    \/ ag.hb.pc # "request" /\ ag'.hb.pc = "request"
    \/ ag.tl.pc # "request" /\ ag'.tl.pc = "request"

\* C33: the agent sends no heartbeat and no task-retrieval request before
\* its registration has succeeded, and when the registration has failed
\* the process has stopped without starting either loop.
C33_RegisterFirst ==
    [][/\ SendsLoopRequest =>
             ag.registered /\ ag.main \notin {"idle", "registering", "fatal"}
       /\ ag'.main = "fatal" =>
             /\ ~ag'.registered
             /\ ag'.hb.pc = "none" /\ ag'.tl.pc = "none"]_vars

\* the registered agent has a heartbeat and a task retrieval in flight
C33_Witness ==
    /\ ag.registered
    /\ ag.hb.pc = "request" /\ ag.tl.pc = "request"

\* C34: a failed heartbeat or task retrieval does not end its loop.  When
\* a request of a loop has returned, whatever the outcome, the loop is in
\* its select again, from where the next tick sends the next request; a
\* loop has returned only if Stop has closed stopChan.
C34_FailuresNonFatal ==
    [][/\ (ag.hb.pc = "request" /\ ag'.hb.pc # "request") =>
             ag'.hb.pc = "wait"
       /\ (ag.tl.pc = "request" /\ ag'.tl.pc # "request") =>
             ag'.tl.pc = "wait"
       /\ (ag'.hb.pc = "exit" \/ ag'.tl.pc = "exit") => ag'.stopClosed
       /\ (ag.hb.pc = "wait" /\ ag.hb.last \in RequestFailures
             /\ ag.main = "running") => ENABLED heartbeatTick
       /\ (ag.tl.pc = "wait" /\ ag.tl.last \in RequestFailures
             /\ ag.main = "running") => ENABLED fetchTick]_vars

\* both loops have sent their next request after a failed one, and Stop
\* has not been called
C34_Witness ==
    /\ ag.hb.last \in RequestFailures /\ ag.hb.pc = "request"
    /\ ag.tl.last \in RequestFailures /\ ag.tl.pc = "request"
    /\ ~ag.stopClosed

\* C35: a task submitted to the scheduler for the registered agent, whose
\* task-retrieval loop keeps polling with success, is eventually
\* retrieved, executed, reported and finalized: its status eventually
\* leaves pending and dispatched.
C35_EventuallyFinalized ==
    []<><<\E fired \in BOOLEAN : fetchResponse("ok", fired)>>_vars =>
        (tasks["t1"].status = "pending"
            ~> tasks["t1"].status \notin {"pending", "dispatched"})

C38_OneAtATime ==
    [][/\ ws.sa.pc \in {"range", "write"} => ws'.clients = ws.clients
       /\ \A c \in Conns : Inside(ws, c) => ~ws'.crashed]_vars

\* C39: Stop terminates the agent.  Stop returns only after both loops
\* have returned, and once it has returned the agent sends no heartbeat,
\* no task-retrieval request and no task result.
C39_StopTerminates ==
    [][/\ (ag.main = "stopping" /\ ag'.main = "stopped") =>
             ag.hb.pc = "exit" /\ ag.tl.pc = "exit"
       /\ ag.main = "stopped" =>
             /\ ~SendsLoopRequest
             /\ \A t \in TaskIds :
                   ag'.reporting[t] <= ag.reporting[t]]_vars

\* C40: revocation of a token is final.  A call of RotateToken on a token
\* that ValidateToken does not accept (revoked, already rotated, expired
\* or unknown) returns no token and leaves no token accepted that was not
\* accepted before the call.
C40_RevocationFinal ==
    [][(/\ tm'.last.op = "RotateToken"
        /\ tm'.last # tm.last \/ tm'.made # tm.made
        /\ ~Accepts(tm, tm'.last.arg)) =>
           /\ tm'.last.ret = NoToken
           /\ \A k \in Tokens : Accepts(tm', k) => Accepts(tm, k)]_vars

====
